---- MODULE Spec2Model ----
(***************************************************************************)
(* Model of backend/server.py: the Reddit acquisition-and-curation         *)
(* pipeline (windowed fetch, quality filter, ranking, diversity/recency    *)
(* selection, comment sampling) with its result cache and scan throttle.   *)
(***************************************************************************)
EXTENDS Integers, Sequences, FiniteSets, TLC

VARIABLES
    sel,              \* the local variables of one call of apply_diversity_and_recency
    now,              \* what time.time() returns, in ticks
    reddit_cache,     \* reddit_cache: lowercased subreddit -> [data, timestamp]
    comments_cache,   \* comments_cache: post id -> [data, timestamp]
    last_scan_times,  \* last_scan_times: lowercased subreddit -> time
    scan,             \* the scan requests: the locals of run_scan and its callees
    budget,           \* clock advances and upstream failures the model still allows
    cache_status,     \* the reply to the last status query (get_cache_status)
    call              \* one call of a helper: its name, argument and return value

vars == <<sel, now, reddit_cache, comments_cache, last_scan_times, scan, budget, cache_status, call>>
scan_vars == <<now, reddit_cache, comments_cache, last_scan_times, scan, budget, cache_status, call>>

(***************************************************************************)
(* Program constants (server.py:44-54).                                    *)
(***************************************************************************)
CACHE_TTL_SECONDS == 600
THROTTLE_SECONDS == 30
TOP_POSTS_FOR_COMMENTS == 15
MAX_COMMENTS_PER_POST == 10
MAX_POSTS_FINAL == 100
MAX_POSTS_PER_AUTHOR == 3
MAX_NO_COMMENT_POSTS == 20
MIN_RECENT_POSTS == 20
\* the count of filtered posts at which the window loop stops (line 627)
ENOUGH_POSTS == 150
\* the limit of the post search request (line 257)
UPSTREAM_LIMIT == 100
\* 3 * 24 * 60 * 60, the recency window of apply_diversity_and_recency
THREE_DAYS == 3 * 24 * 60 * 60

(***************************************************************************)
(* Bounds of the model.                                                    *)
(***************************************************************************)
\* how far the generated inputs go past each cap of the selector
Extra == 1
\* clock advances in one behaviour
MaxTicks == 2
\* failed upstream requests in one behaviour of the concurrent system
MaxFaults == 1
\* failed upstream requests in one behaviour of a single scan
MaxScanFaults == 3
\* resolution of the clock: time values are counted in ticks of
\* 1/TicksPerSecond s
TicksPerSecond == 2
\* length of the lists of every shape given to a helper called on its own
MaxListLen == 2

\* a duration of n seconds, in ticks; whole seconds of a duration, as int()
Seconds(n) == n * TicksPerSecond
WholeSeconds(ticks) == ticks \div TicksPerSecond

(***************************************************************************)
(* Sequence helpers.                                                       *)
(***************************************************************************)
Max(a, b) == IF a >= b THEN a ELSE b
Min(a, b) == IF a <= b THEN a ELSE b

\* s[:n]
Take(s, n) == SubSeq(s, 1, Min(n, Len(s)))

\* number of elements of s satisfying P
Count(s, P(_)) == Cardinality({k \in 1..Len(s) : P(s[k])})

\* sorted(s, key=..., reverse=True), keys[k] being the key of s[k]: stable and
\* descending (Python keeps the input order of elements with equal keys, also
\* with reverse=True): the elements of the greatest key in input order, then
\* those of the next key, and so on.
SetMax(S) == CHOOSE m \in S : \A x \in S : x <= m

RECURSIVE ByKeyDesc(_, _)
ByKeyDesc(pairs, K) ==
    IF K = {} THEN <<>>
    ELSE LET m == SetMax(K)
             IsM(pr) == pr[1] = m
         IN  SelectSeq(pairs, IsM) \o ByKeyDesc(pairs, K \ {m})

SortedDesc(s, keys) ==
    LET pairs == [k \in 1..Len(s) |-> <<keys[k], s[k]>>] \o <<>>
        sorted == ByKeyDesc(pairs, {keys[k] : k \in 1..Len(s)})
    IN  [k \in 1..Len(s) |-> sorted[k][2]] \o <<>>

\* f applied n times to x, by halving, the first half being computed before
\* the second starts (f is the step of a loop that, once the loop has ended,
\* leaves its argument unchanged)
RECURSIVE Iterate(_, _, _)
Iterate(f(_), x, n) ==
    IF n = 0 THEN x
    ELSE IF n = 1 THEN f(x)
    ELSE LET half == Iterate(f, x, n \div 2)
         IN  IF half = half THEN Iterate(f, half, n - (n \div 2)) ELSE half

(***************************************************************************)
(* Posts.  A post is a record                                              *)
(*   [id, author, num_comments, score, created_utc, selftext, title]       *)
(* where selftext and title stand for the lengths of the two strings,      *)
(* author is a number, 0 standing for the empty author string, and         *)
(* created_utc is counted in ticks like every time value of the model.     *)
(***************************************************************************)

\* math.log(n) in thousandths, rounded down, for the arguments the model uses
LnMilli == <<0, 693, 1098, 1386, 1609, 1791, 1945, 2079, 2197, 2302, 2397>>

\* calculate_post_rank, in thousandths
calculate_post_rank(post) ==
    LET score == Max(0, post.score)
        num_comments == Max(0, post.num_comments)
        engagement == LnMilli[score + 1] + 2 * LnMilli[num_comments + 1]
        text_bonus == Min((post.selftext * 1000) \div 500, 1000)
    IN  engagement + (350 * text_bonus) \div 1000

(***************************************************************************)
(* apply_diversity_and_recency (server.py:452-531).  The local variables   *)
(* of a call are the fields of a record st; each operator below is one     *)
(* stretch of the function's body.                                         *)
(***************************************************************************)
Ranks(posts) == [k \in 1..Len(posts) |-> calculate_post_rank(posts[k])]
Created(posts) == [k \in 1..Len(posts) |-> posts[k].created_utc]

\* author_count.get(author, 0)
AuthorGet(author_count, author) ==
    IF author \in DOMAIN author_count THEN author_count[author] ELSE 0

\* author_count[author] = n
AuthorPut(author_count, author, n) ==
    [a \in DOMAIN author_count \cup {author} |->
        IF a = author THEN n ELSE author_count[a]]

\* lines 459-476: rank, sort, and the initial values of the locals
SelStart(posts, t) ==
    [ pc |-> "first_pass",
      posts_sorted |-> SortedDesc(posts, Ranks(posts)),
      three_days_ago |-> t - Seconds(THREE_DAYS),
      i |-> 1,
      selected |-> <<>>,
      recent_in_selection |-> 0,
      deferred_recent |-> <<>>,
      author_count |-> <<>>,
      no_comment_count |-> 0,
      j |-> 1 ]

\* the cap checks of the first pass (lines 479, 489, 494)
CapReached_OffByOne(st) == Len(st.selected) > MAX_POSTS_FINAL
CapReached(st) == Len(st.selected) >= MAX_POSTS_FINAL
AuthorCapped(st, post) ==
    AuthorGet(st.author_count, post.author) >= MAX_POSTS_PER_AUTHOR
NoCommentCapped(st, post) ==
    post.num_comments = 0 /\ st.no_comment_count >= MAX_NO_COMMENT_POSTS

\* lines 478-505: one iteration of the first pass, or its end
FirstPassStep(st) ==
    IF st.i > Len(st.posts_sorted) \/ CapReached(st)
    THEN [st EXCEPT !.pc = "check"]
    ELSE
      LET post == st.posts_sorted[st.i]
          is_recent == post.created_utc > st.three_days_ago
      IN  IF AuthorCapped(st, post) \/ NoCommentCapped(st, post)
          THEN [st EXCEPT !.i = st.i + 1,
                          !.deferred_recent =
                              IF is_recent THEN Append(@, post) ELSE @]
          ELSE [st EXCEPT !.i = st.i + 1,
                          !.selected = Append(@, post),
                          !.author_count =
                              AuthorPut(@, post.author,
                                        AuthorGet(@, post.author) + 1),
                          !.no_comment_count =
                              IF post.num_comments = 0 THEN @ + 1 ELSE @,
                          !.recent_in_selection =
                              IF is_recent THEN @ + 1 ELSE @]

\* lines 508-510: whether the second pass runs, and the sort of the deferred
SecondPassEnter(st) ==
    IF st.recent_in_selection < MIN_RECENT_POSTS /\ st.deferred_recent # <<>>
    THEN [st EXCEPT !.pc = "second_pass",
                    !.deferred_recent = SortedDesc(@, Created(@)),
                    !.j = 1]
    ELSE [st EXCEPT !.pc = "return"]

\* range(len(selected) - 1, -1, -1) with the test of line 519: the last
\* position holding a post created at or before the boundary, 0 if none
ReplaceIndex_Last(st) == Len(st.selected)
ReplaceIndex(st) ==
    LET old == {k \in 1..Len(st.selected) :
                   st.selected[k].created_utc <= st.three_days_ago}
    IN  IF old = {} THEN 0 ELSE CHOOSE k \in old : \A m \in old : m <= k

\* whether the second pass admits by appending (line 515, the else branch)
HasRoom(st) == Len(st.selected) < MAX_POSTS_FINAL

\* line 512: the post an iteration of the second pass handles
DeferredPost_FromSorted(st) == st.posts_sorted[st.j]
DeferredPost(st) == st.deferred_recent[st.j]

\* lines 512-525: one iteration of the second pass, or its end
SecondPassStep(st) ==
    IF st.j > Len(st.deferred_recent)
       \/ st.recent_in_selection >= MIN_RECENT_POSTS
    THEN [st EXCEPT !.pc = "return"]
    ELSE
      LET post == DeferredPost(st)
          r == ReplaceIndex(st)
      IN  IF ~HasRoom(st)
          THEN IF r = 0
               THEN [st EXCEPT !.j = st.j + 1]
               ELSE [st EXCEPT !.j = st.j + 1,
                               !.selected = [@ EXCEPT ![r] = post],
                               !.recent_in_selection = @ + 1]
          ELSE [st EXCEPT !.j = st.j + 1,
                          !.selected = Append(@, post),
                          !.recent_in_selection = @ + 1]

\* line 531
SelReturn(st) == Take(st.selected, MAX_POSTS_FINAL)

\* the first pass run to its end
RunFirstPass(st) ==
    LET step(x) == IF x.pc = "first_pass" THEN FirstPassStep(x) ELSE x
    IN  Iterate(step, st, Len(st.posts_sorted) + 1)

\* the second pass run to its end
RunSecondPass(st) ==
    LET step(x) == IF x.pc = "second_pass" THEN SecondPassStep(x) ELSE x
    IN  Iterate(step, st, Len(st.deferred_recent) + 1)

\* the whole function, called at time t
apply_diversity_and_recency(posts, t) ==
    SelReturn(RunSecondPass(SecondPassEnter(RunFirstPass(SelStart(posts, t)))))

(***************************************************************************)
(* Input lists of the selector: two blocks of posts.  The posts of a block *)
(* agree in score, reply count and age class; their authors are all       *)
(* different, all the empty string (0), or all the same named author (1).  *)
(***************************************************************************)
StartTime == Seconds(4 * THREE_DAYS)
BlockSizes == {Extra, MAX_POSTS_PER_AUTHOR + Extra,
               MAX_NO_COMMENT_POSTS + Extra, MAX_POSTS_FINAL}
AuthorModes == {"distinct", "anon", "one"}
Blocks == [n : BlockSizes, mode : AuthorModes, num_comments : {0, 2},
           score : {0, 9}, recent : BOOLEAN]

MakeBlock(b, base, t) ==
    [k \in 1..b.n |->
        [ id |-> base + k,
          author |-> CASE b.mode = "distinct" -> base + k
                       [] b.mode = "anon" -> 0
                       [] OTHER -> 1,
          num_comments |-> b.num_comments,
          score |-> b.score,
          created_utc |-> IF b.recent THEN t - Seconds(1 + (k % 2))
                          ELSE t - Seconds(THREE_DAYS + (k % 2)),
          selftext |-> 0,
          title |-> 30 ]]

BlockBase == 10 * MAX_POSTS_FINAL

\* the second block has score 9; the first may rank above or below it
SelInputs ==
    {MakeBlock(b1, BlockBase, StartTime) \o MakeBlock(b2, 2 * BlockBase, StartTime) :
        b1 \in Blocks, b2 \in {b \in Blocks : b.score = 9}}

(***************************************************************************)
(* Optional values, dictionaries, subreddit names.                         *)
(***************************************************************************)
\* Python's None, for optional strings
None == "None"
\* Python's None, for the optional HTTP status (no response was received)
NoStatus == 0

\* d[k] = v for a dict d (a function on the set of its keys)
Put(d, k, v) == [x \in DOMAIN d \cup {k} |-> IF x = k THEN v ELSE d[x]]

\* del d[k]
Remove(d, k) == [x \in DOMAIN d \ {k} |-> d[x]]

\* the subreddit fields of the tracked games a scan can be asked for
Subreddits == {"r/TestGame/", "testgame", "r/Other"}

\* normalize_subreddit (server.py:233-244) on these inputs: the leading r/
\* and the trailing slashes are stripped, the case is kept
normalize_subreddit(input_str) ==
    CASE input_str = "r/TestGame/" -> "TestGame"
      [] input_str = "testgame" -> "testgame"
      [] input_str = "r/Other" -> "Other"
      [] OTHER -> ""

\* str.lower() on the normalized names
Lower(str) ==
    CASE str = "TestGame" -> "testgame"
      [] str = "Other" -> "other"
      [] OTHER -> str

(***************************************************************************)
(* apply_quality_filter (server.py:408-431).                               *)
(***************************************************************************)
is_low_quality_EmptyBody(post) ==
    /\ post.num_comments = 0
    /\ post.score <= 1
    /\ post.selftext = 0
    /\ post.title < 25
is_low_quality(post) ==
    /\ post.num_comments = 0
    /\ post.score <= 1
    /\ (post.selftext = 0 \/ post.selftext < 80)
    /\ post.title < 25

IsKept(post) == ~is_low_quality(post)

apply_quality_filter(posts) == SelectSeq(posts, IsKept)

(***************************************************************************)
(* The upstream post search and fetch_arctic_shift_posts                   *)
(* (server.py:250-336).  A response is a record [kind, status,             *)
(* retry_after, body, data]: kind is "http" or the exception raised,       *)
(* body tells what the body of a 200 response parses to.                   *)
(***************************************************************************)
Post(id, author, num_comments, score, age, selftext, title) ==
    [ id |-> id, author |-> author, num_comments |-> num_comments,
      score |-> score, created_utc |-> StartTime - Seconds(age),
      selftext |-> selftext, title |-> title ]

\* the posts the upstream knows: 1 and 2 fail the quality filter
P1 == Post(1, 11, 0, 1, 7200, 0, 10)
P2 == Post(2, 0, 0, 0, 7200, 79, 24)
P3 == Post(3, 11, 2, 5, 3600, 0, 10)
P4 == Post(4, 12, 0, 0, 2 * THREE_DAYS, 80, 10)
P5 == Post(5, 0, 1, 1, 7200, 0, 30)
P6 == Post(6, 12, 0, 2, 7200, 600, 10)

\* 150 posts of one author, older than 3 days, that pass the quality filter
BigBatch ==
    [k \in 1..ENOUGH_POSTS |-> Post(100 + k, 13, 2, 5, THREE_DAYS + 3600 * k, 0, 10)] \o <<>>

\* two posts more than comments are fetched for, recent, of as many
\* authors, with one or two comments and different scores
ManyBatch ==
    [k \in 1..(TOP_POSTS_FOR_COMMENTS + 2) |->
        Post(200 + k, 20 + k, 1 + ((k - 1) \div 9), 1 + ((k - 1) % 9), 7200, 0, 10)] \o <<>>

\* as many of them as the request's limit allows
FullBatch == Take(BigBatch, UPSTREAM_LIMIT)

\* the lists a successful search returns
Batches ==
    { <<>>, <<P1, P2>>, <<P1, P3, P4>>, <<P3, P2, P4, P5, P6>>, FullBatch, BigBatch }

HttpResponse(status, retry_after, body, data) ==
    [ kind |-> "http", status |-> status, retry_after |-> retry_after,
      body |-> body, data |-> data ]

OkResponses == {HttpResponse(200, None, "ok", b) : b \in Batches}

FailedResponses ==
    {HttpResponse(st, None, "", <<>>) : st \in {404, 403, 400, 429, 502, 503, 504, 500}}
    \cup {HttpResponse(429, "5", "", <<>>)}
    \cup {HttpResponse(200, None, b, <<>>) :
             b \in {"bad_json", "not_dict", "data_not_list"}}
    \cup {[kind |-> k, status |-> NoStatus, retry_after |-> None,
           body |-> "", data |-> <<>>] : k \in {"timeout", "connect", "exception"}}

PostsReturn(posts, status, error) ==
    [posts |-> posts, status |-> status, error |-> error]

fetch_arctic_shift_posts(r) ==
    CASE r.kind = "timeout" ->
            PostsReturn(<<>>, NoStatus, "Request timed out. Try again or reduce time window.")
      [] r.kind = "connect" ->
            PostsReturn(<<>>, NoStatus, "Could not connect to Arctic Shift. Check connection.")
      [] r.kind = "exception" ->
            PostsReturn(<<>>, NoStatus, "Network error")
      [] OTHER ->
         CASE r.status = 404 ->
                PostsReturn(<<>>, r.status, "Subreddit not found. Check spelling.")
           [] r.status = 429 ->
                PostsReturn(<<>>, r.status,
                    IF r.retry_after # None
                    THEN "Rate limited (retry after Ns). Try again later."
                    ELSE "Rate limited. Try again later.")
           [] r.status = 403 ->
                PostsReturn(<<>>, r.status, "Access forbidden.")
           [] r.status = 400 ->
                PostsReturn(<<>>, r.status, "Bad request. Check subreddit name.")
           [] r.status = 502 \/ r.status = 503 ->
                PostsReturn(<<>>, r.status,
                    "Arctic Shift service temporarily unavailable. Try again later.")
           [] r.status = 504 ->
                PostsReturn(<<>>, r.status,
                    "Request timed out. Try reducing the time window.")
           [] r.status # 200 ->
                PostsReturn(<<>>, r.status, "Arctic Shift returned HTTP status.")
           [] r.body = "bad_json" ->
                PostsReturn(<<>>, r.status, "Invalid JSON response from Arctic Shift.")
           [] r.body = "not_dict" ->
                PostsReturn(<<>>, r.status, "Unexpected response format.")
           [] r.body = "data_not_list" ->
                PostsReturn(<<>>, r.status, "Unexpected response. 'data' is not an array.")
           [] OTHER -> PostsReturn(r.data, r.status, None)

(***************************************************************************)
(* The upstream comment search, fetch_arctic_shift_comments                *)
(* (server.py:339-405) and select_best_comments (server.py:534-563).       *)
(* A raw comment is a record [id, parent, body, score, created_utc]:       *)
(* parent is "t3_" for a reply to the post itself, body is the length of   *)
(* its text, 0 for an empty, "[deleted]" or "[removed]" one.               *)
(***************************************************************************)
COMMENT_BODY_TRUNCATE == 400

RawComment(id, parent, body, score, age) ==
    [ id |-> id, parent |-> parent, body |-> body, score |-> score,
      created_utc |-> StartTime - Seconds(age) ]

\* what the upstream holds for a post: as many replies to the post as its
\* num_comments says, then a reply to a reply and a removed comment
UpstreamComments(post) ==
    IF post.num_comments = 0 THEN <<>>
    ELSE [k \in 1..post.num_comments |->
             RawComment(10 * post.id + k, "t3_", 200 * k + 50, 3, 60 * k)] \o
         << RawComment(10 * post.id + 8, "t1_", 40, 9, 30),
            RawComment(10 * post.id + 9, "t3_", 0, 1, 30) >>

\* lines 370-393: the top-level comments with a body
IsTopLevel(c) == c.parent = "" \/ c.parent = "t3_"
HasBody(c) == c.body # 0
IsSampled(c) == IsTopLevel(c) /\ HasBody(c)
TopLevelComments(raw) ==
    LET kept == SelectSeq(raw, IsSampled)
    IN  [k \in 1..Len(kept) |->
            [ id |-> kept[k].id, body |-> kept[k].body,
              score |-> kept[k].score, created_utc |-> kept[k].created_utc ]] \o <<>>

\* lines 540-544: sorted by (score, len(body), created_utc), reverse=True;
\* three stable sorts, the least significant key first
SortComments_ByTruncated(comments) ==
    LET by_created == SortedDesc(comments,
                          [k \in 1..Len(comments) |-> comments[k].created_utc])
        by_body == SortedDesc(by_created,
                          [k \in 1..Len(by_created) |-> Min(by_created[k].body,
                                                            COMMENT_BODY_TRUNCATE)])
    IN  SortedDesc(by_body, [k \in 1..Len(by_body) |-> by_body[k].score])
SortComments(comments) ==
    LET by_created == SortedDesc(comments,
                          [k \in 1..Len(comments) |-> comments[k].created_utc])
        by_body == SortedDesc(by_created,
                          [k \in 1..Len(by_created) |-> by_created[k].body])
    IN  SortedDesc(by_body, [k \in 1..Len(by_body) |-> by_body[k].score])

\* lines 550-551: the length of the truncated body (of a body that holds no
\* user mention; the text of a body is modelled by SelectedBody below)
Truncated(body) ==
    IF body > COMMENT_BODY_TRUNCATE THEN COMMENT_BODY_TRUNCATE + 3 ELSE body

select_best_comments(comments) ==
    LET best == Take(SortComments(comments), MAX_COMMENTS_PER_POST)
    IN  [k \in 1..Len(best) |->
            [ id |-> best[k].id, body |-> Truncated(best[k].body),
              score |-> best[k].score ]] \o <<>>

(***************************************************************************)
(* check_throttle and update_scan_time (server.py:869-884).                *)
(***************************************************************************)
IsThrottled_Never(elapsed) == FALSE
\* line 877
IsThrottled(elapsed) == elapsed < Seconds(THROTTLE_SECONDS)

check_throttle(subreddit) ==
    LET normalized == Lower(normalize_subreddit(subreddit))
        current_time == now
        elapsed == current_time - last_scan_times[normalized]
    IN  IF normalized \in DOMAIN last_scan_times /\ IsThrottled(elapsed)
        THEN [should_throttle |-> TRUE,
              seconds_remaining |-> WholeSeconds(Seconds(THROTTLE_SECONDS) - elapsed)]
        ELSE [should_throttle |-> FALSE, seconds_remaining |-> 0]

update_scan_time_Never(subreddit) == last_scan_times
update_scan_time(subreddit) ==
    Put(last_scan_times, Lower(normalize_subreddit(subreddit)), now)

(***************************************************************************)
(* fetch_reddit_posts (server.py:566-689) and run_scan                     *)
(* (server.py:1063-1155).  The locals of one scan request are the fields   *)
(* of a record s; accepted, accepted_at, done_at, requested, log,          *)
(* comment_requests, comment_errors, wrote_cache, write_no (the place of   *)
(* its write among the writes of the result cache), in_cache and cache_age *)
(* record what the scan did and are read by no operation.                  *)
(***************************************************************************)
Windows == <<"8d..36h", "8d..12h", "8d..0h">>

NoPostsMessage == "No posts found for r/{name}. The subreddit may be empty, private, or the name may be incorrect."

DebugInfo(normalized) ==
    [ subreddit_normalized |-> normalized,
      posts_url |-> "",
      posts_status |-> NoStatus,
      raw_post_count |-> 0,
      after_quality_filter |-> 0,
      final_post_count |-> 0,
      comments_fetched_for |-> 0,
      total_comments |-> 0,
      window_used |-> "",
      error_details |-> None,
      data_source |-> "arctic-shift" ]

NoResult ==
    [ error |-> None, seconds_remaining |-> 0, post_count |-> 0,
      comments_sampled |-> 0, cached |-> FALSE, debug_info |-> DebugInfo(""),
      posts |-> <<>>, post_comments |-> <<>> ]

IdleScan ==
    [ pc |-> "idle", subreddit |-> "", current_time |-> 0, w |-> 0,
      posts |-> <<>>, used_window |-> "", debug |-> DebugInfo(""),
      final_posts |-> <<>>, ranked_for_comments |-> <<>>, c |-> 0,
      comment_time |-> 0, post_comments |-> <<>>, total_comments_fetched |-> 0,
      ret |-> [posts |-> <<>>, post_comments |-> <<>>, error |-> None,
               used_cache |-> FALSE],
      result |-> NoResult,
      accepted |-> FALSE, accepted_at |-> 0, done_at |-> 0,
      requested |-> <<>>, log |-> <<>>, comment_requests |-> 0,
      comment_errors |-> 0, wrote_cache |-> FALSE,
      in_cache |-> FALSE, cache_age |-> 0, write_no |-> 0 ]

RECURSIVE SumComments(_)
SumComments(post_comments) ==
    IF post_comments = <<>> THEN 0
    ELSE Len(Head(post_comments).comments) + SumComments(Tail(post_comments))

\* run_scan, lines 1077-1089: the result of a throttled request
ThrottledResult(subreddit, seconds_remaining) ==
    [ NoResult EXCEPT
        !.error = "Please wait {seconds_remaining} seconds before scanning r/{subreddit} again.",
        !.seconds_remaining = seconds_remaining,
        !.debug_info = [DebugInfo(normalize_subreddit(subreddit)) EXCEPT
                           !.error_details = "Throttled: {seconds_remaining}s remaining"] ]

\* run_scan, lines 1094-1155: the result built from what fetch_reddit_posts
\* returned (the summarizer's fields are left out)
ScanResult(ret, debug) ==
    IF ret.error # None
    THEN [NoResult EXCEPT !.error = ret.error, !.debug_info = debug]
    ELSE IF Len(ret.posts) = 0
    THEN [NoResult EXCEPT
            !.error = NoPostsMessage,
            !.debug_info = [debug EXCEPT
                               !.error_details = "No posts found for this subreddit"]]
    ELSE [NoResult EXCEPT
            !.post_count = Len(ret.posts),
            !.comments_sampled = SumComments(ret.post_comments),
            !.cached = ret.used_cache,
            !.debug_info = debug,
            !.posts = ret.posts,
            !.post_comments = ret.post_comments]

\* a return of fetch_reddit_posts
Return(s, posts, post_comments, error, used_cache) ==
    [s EXCEPT !.pc = "return",
              !.ret = [posts |-> posts, post_comments |-> post_comments,
                       error |-> error, used_cache |-> used_cache]]

\* lines 587-591, 347-349: an entry of a cache is served while younger than
\* the time to live
IsFresh_Inclusive(cache_age) == cache_age <= Seconds(CACHE_TTL_SECONDS)
IsFresh(cache_age) == cache_age < Seconds(CACHE_TTL_SECONDS)

CacheHit(cache, key, current_time) ==
    key \in DOMAIN cache /\ IsFresh(current_time - cache[key].timestamp)

\* lines 607-612: the request for window w goes out
RequestWindow(s, w) ==
    [s EXCEPT !.pc = "window", !.w = w,
              !.debug = [@ EXCEPT !.posts_url = Windows[w]],
              !.requested = Append(@, w)]

\* lines 572-612: fetch_reddit_posts up to its first await
FetchStart(s, subreddit) ==
    LET normalized == normalize_subreddit(subreddit)
        subreddit_lower == Lower(normalized)
        s1 == [s EXCEPT !.subreddit = subreddit,
                        !.current_time = now,
                        !.debug = DebugInfo(normalized),
                        !.accepted = TRUE,
                        !.accepted_at = now,
                        !.in_cache = subreddit_lower \in DOMAIN reddit_cache,
                        !.cache_age = IF subreddit_lower \in DOMAIN reddit_cache
                                      THEN now - reddit_cache[subreddit_lower].timestamp
                                      ELSE 0]
    IN  IF CacheHit(reddit_cache, subreddit_lower, now)
        THEN LET cached_data == reddit_cache[subreddit_lower].data
             IN  Return([s1 EXCEPT !.debug = [@ EXCEPT
                                     !.error_details = "Using cached data (age: {cache_age}s)"]],
                        cached_data.posts, cached_data.comments, None, TRUE)
        ELSE RequestWindow(s1, 1)

\* lines 664-672: the comments of one post are sampled
SampleComments(s, post, comments) ==
    LET best_comments == select_best_comments(comments)
    IN  IF comments # <<>> /\ best_comments # <<>>
        THEN [s EXCEPT !.post_comments =
                           Append(@, [post_id |-> post.id, comments |-> best_comments]),
                       !.total_comments_fetched = @ + Len(best_comments)]
        ELSE s

\* lines 657-662 and 343-362: iteration c of the comment loop up to its await,
\* the request to the upstream or, on a hit of the comment cache, the sleep
StartComment(s, c) ==
    LET post == s.ranked_for_comments[c]
        s1 == [s EXCEPT !.c = c, !.comment_time = now]
    IN  IF CacheHit(comments_cache, post.id, now)
        THEN [SampleComments(s1, post, comments_cache[post.id].data)
                 EXCEPT !.pc = "sleep"]
        ELSE [s1 EXCEPT !.pc = "comment", !.comment_requests = @ + 1]

\* line 654: the posts comments are fetched for
TopForComments_All(final_posts) == SortedDesc(final_posts, Ranks(final_posts))
TopForComments(final_posts) ==
    Take(SortedDesc(final_posts, Ranks(final_posts)), TOP_POSTS_FOR_COMMENTS)

\* lines 638-662: after the window loop
AfterWindows(s) ==
    LET debug == [s.debug EXCEPT !.window_used = s.used_window]
    IN  IF s.posts = <<>>
        THEN Return([s EXCEPT !.debug = [debug EXCEPT
                                !.error_details = "No posts found in any time window"]],
                    <<>>, <<>>, NoPostsMessage, FALSE)
        ELSE LET final_posts == apply_diversity_and_recency(s.posts, now)
                 ranked == TopForComments(final_posts)
             IN  StartComment(
                     [s EXCEPT !.debug = [debug EXCEPT
                                   !.final_post_count = Len(final_posts)],
                               !.final_posts = final_posts,
                               !.ranked_for_comments = ranked,
                               !.post_comments = <<>>,
                               !.total_comments_fetched = 0], 1)

\* the for statement of line 607: the next window, or the end of the loop
NextWindow_Retry(s) == RequestWindow(s, s.w)
NextWindow(s) ==
    IF s.w < Len(Windows) THEN RequestWindow(s, s.w + 1) ELSE AfterWindows(s)

\* line 618
IsOverload_No504(status) == status \in {429, 502, 503}
IsOverload(status) == status \in {429, 502, 503, 504}

\* line 627
HasEnough_AtLimit(filtered_posts) == Len(filtered_posts) >= UPSTREAM_LIMIT
HasEnough_Strict(filtered_posts) == Len(filtered_posts) > ENOUGH_POSTS
HasEnough(filtered_posts) == Len(filtered_posts) >= ENOUGH_POSTS

\* line 631
IsLarger_OrEqual(filtered_posts, posts) == Len(filtered_posts) >= Len(posts)
IsLarger(filtered_posts, posts) == Len(filtered_posts) > Len(posts)

\* lines 612-636: the response r to the request for window s.w arrives
OnWindowResponse(s, r) ==
    LET got == fetch_arctic_shift_posts(r)
        filtered_posts == apply_quality_filter(got.posts)
        s1 == [s EXCEPT !.debug = [@ EXCEPT !.posts_status = got.status],
                        !.log = Append(@, [window |-> s.w, status |-> got.status,
                                           error |-> got.error,
                                           raw |-> Len(got.posts),
                                           filtered |-> Len(filtered_posts)])]
    IN  IF got.error # None
        THEN LET s2 == [s1 EXCEPT !.debug = [@ EXCEPT !.error_details = got.error]]
             IN  IF IsOverload(got.status)
                 THEN Return(s2, <<>>, <<>>, got.error, FALSE)
                 ELSE NextWindow(s2)
        ELSE LET s2 == [s1 EXCEPT !.debug = [@ EXCEPT
                                     !.raw_post_count = Len(got.posts),
                                     !.after_quality_filter = Len(filtered_posts)]]
                 s3 == [s2 EXCEPT !.posts = filtered_posts,
                                  !.used_window = Windows[s.w]]
             IN  IF HasEnough(filtered_posts) THEN AfterWindows(s3)
                 ELSE IF IsLarger(filtered_posts, s.posts) THEN NextWindow(s3)
                 ELSE NextWindow(s2)

\* lines 364-401 and 664-675: the response to the comment request arrives;
\* ok is whether it is a 200 response that parses
OnCommentResponse(s, ok) ==
    LET post == s.ranked_for_comments[s.c]
        comments == IF ok THEN TopLevelComments(UpstreamComments(post)) ELSE <<>>
        s1 == IF ok THEN s ELSE [s EXCEPT !.comment_errors = @ + 1]
    IN  [SampleComments(s1, post, comments) EXCEPT !.pc = "sleep"]

\* lines 395-399: the write of the comment cache on a good response
CommentCacheWrite(s, ok) ==
    IF ok
    THEN Put(comments_cache, s.ranked_for_comments[s.c].id,
             [data |-> TopLevelComments(UpstreamComments(s.ranked_for_comments[s.c])),
              timestamp |-> s.comment_time])
    ELSE comments_cache

\* lines 677-689: after the comment loop
AfterComments(s) ==
    Return([s EXCEPT !.debug = [@ EXCEPT
                         !.comments_fetched_for = Len(s.post_comments),
                         !.total_comments = s.total_comments_fetched],
                     !.wrote_cache = TRUE,
                     !.write_no = 1 + Cardinality({q \in DOMAIN scan :
                                                      scan[q].wrote_cache})],
           s.final_posts, s.post_comments, None, FALSE)

\* lines 681-687
RedditCacheWrite_KeepFirst(s) ==
    IF Lower(normalize_subreddit(s.subreddit)) \in DOMAIN reddit_cache
    THEN reddit_cache
    ELSE Put(reddit_cache, Lower(normalize_subreddit(s.subreddit)),
             [data |-> [posts |-> s.final_posts, comments |-> s.post_comments],
              timestamp |-> s.current_time])
RedditCacheWrite(s) ==
    Put(reddit_cache, Lower(normalize_subreddit(s.subreddit)),
        [data |-> [posts |-> s.final_posts, comments |-> s.post_comments],
         timestamp |-> s.current_time])

\* line 675 and the for statement of line 657: the sleep is over
OnSleepDone(s) ==
    IF s.c < Len(s.ranked_for_comments) THEN StartComment(s, s.c + 1)
    ELSE AfterComments(s)

\* the scan stores its locals; when fetch_reddit_posts has returned, run_scan
\* goes on without an await: update_scan_time (line 1092) and the result
Proceed(p, s) ==
    IF s.pc = "return"
    THEN /\ last_scan_times' = update_scan_time(s.subreddit)
         /\ scan' = [scan EXCEPT ![p] =
                        [IdleScan EXCEPT
                            !.pc = "done", !.subreddit = s.subreddit,
                            !.result = ScanResult(s.ret, s.debug),
                            !.accepted = s.accepted, !.accepted_at = s.accepted_at,
                            !.done_at = now, !.requested = s.requested,
                            !.log = s.log, !.comment_requests = s.comment_requests,
                            !.comment_errors = s.comment_errors,
                            !.wrote_cache = s.wrote_cache,
                            !.in_cache = s.in_cache, !.cache_age = s.cache_age,
                            !.write_no = s.write_no]]
    ELSE /\ scan' = [scan EXCEPT ![p] = s]
         /\ UNCHANGED last_scan_times

(***************************************************************************)
(* The scan system: scan requests run concurrently as asyncio tasks, each  *)
(* action being the code one task runs between two awaits.                 *)
(***************************************************************************)
SelIdle == [pc |-> "idle"]

\* no helper is called on its own
NoCall == [fn |-> "", arg |-> <<>>, returned |-> FALSE, ret |-> <<>>]

\* get_cache_status, line 1208: the reply when the subject has no entry
NoStatusReply ==
    [cached |-> FALSE, valid |-> FALSE, age_seconds |-> 0, expires_in |-> 0,
     post_count |-> 0]

ScanInit(requests, faults) ==
    /\ now = StartTime
    /\ reddit_cache = <<>>
    /\ comments_cache = <<>>
    /\ last_scan_times = <<>>
    /\ scan = [p \in requests |-> IdleScan]
    /\ budget = [ticks |-> MaxTicks, faults |-> faults]
    /\ cache_status = NoStatusReply

Init == sel = SelIdle /\ call = NoCall /\ ScanInit({1, 2}, MaxFaults)

\* run_scan, lines 1078-1089: the throttle map after a rejected request, which
\* returns before update_scan_time
ThrottledTimes_Recorded(subreddit) == update_scan_time(subreddit)
ThrottledTimes(subreddit) == last_scan_times

\* run_scan, lines 1075-1091: a request for a game with this subreddit
ScanStart(p, subreddit) ==
    /\ scan[p].pc = "idle"
    \* the requests are numbered in the order of their arrival
    /\ \A q \in DOMAIN scan : q < p => scan[q].pc # "idle"
    /\ LET throttle == check_throttle(subreddit)
       IN  IF throttle.should_throttle
           THEN /\ scan' = [scan EXCEPT ![p] =
                               [@ EXCEPT !.pc = "done", !.subreddit = subreddit,
                                         !.result = ThrottledResult(subreddit,
                                                        throttle.seconds_remaining)]]
                /\ last_scan_times' = ThrottledTimes(subreddit)
           ELSE Proceed(p, FetchStart(scan[p], subreddit))
    /\ UNCHANGED <<sel, call, cache_status, now, reddit_cache, comments_cache, budget>>

\* the response to a post search arrives
WindowResponse(p, r) ==
    /\ scan[p].pc = "window"
    /\ r \in FailedResponses => budget.faults > 0
    /\ budget' = IF r \in FailedResponses
                 THEN [budget EXCEPT !.faults = @ - 1] ELSE budget
    /\ Proceed(p, OnWindowResponse(scan[p], r))
    /\ UNCHANGED <<sel, call, cache_status, now, reddit_cache, comments_cache>>

\* the response to a comment search arrives
CommentResponse(p, ok) ==
    /\ scan[p].pc = "comment"
    /\ ~ok => budget.faults > 0
    /\ budget' = IF ok THEN budget ELSE [budget EXCEPT !.faults = @ - 1]
    /\ comments_cache' = CommentCacheWrite(scan[p], ok)
    /\ Proceed(p, OnCommentResponse(scan[p], ok))
    /\ UNCHANGED <<sel, call, cache_status, now, reddit_cache>>

\* asyncio.sleep(COMMENT_FETCH_DELAY) returns
SleepDone(p) ==
    /\ scan[p].pc = "sleep"
    /\ LET s == OnSleepDone(scan[p])
       IN  /\ reddit_cache' = IF s.pc = "return" THEN RedditCacheWrite(s)
                              ELSE reddit_cache
           /\ Proceed(p, s)
    /\ UNCHANGED <<sel, call, cache_status, now, comments_cache, budget>>

\* time passes: a moment, or a moment less than the throttle interval or
\* than the time to live of the caches.  The clock is let advance between
\* requests and while a scan waits for the answer to its first post search,
\* which separates the clock readings of lines 583, 874 and 884 of one scan
\* and of different scans in every order.
AtClockReading(s) == s.pc \in {"idle", "done"} \/ (s.pc = "window" /\ s.w = 1)

TickSteps == {1, Seconds(THROTTLE_SECONDS) - 1, Seconds(CACHE_TTL_SECONDS) - 1}

Tick(d) ==
    /\ budget.ticks > 0
    /\ \A p \in DOMAIN scan : AtClockReading(scan[p])
    /\ now' = now + d
    /\ budget' = [budget EXCEPT !.ticks = @ - 1]
    /\ UNCHANGED <<sel, call, cache_status, reddit_cache, comments_cache, last_scan_times, scan>>

\* the scans' steps, the upstream answering the post searches for a
\* subreddit from Responses(subreddit)
Requests == \E p \in DOMAIN scan, subreddit \in Subreddits : ScanStart(p, subreddit)

Answers(Responses(_)) ==
    \/ \E p \in DOMAIN scan :
          \E r \in Responses(scan[p].subreddit) : WindowResponse(p, r)
    \/ \E p \in DOMAIN scan, ok \in BOOLEAN : CommentResponse(p, ok)
    \/ \E p \in DOMAIN scan : SleepDone(p)

ScanNext(Responses(_)) == Requests \/ Answers(Responses)

\* the concurrent system: two requests, the clock, and an upstream that
\* holds posts for one subject, answering its post searches with one of two
\* lists, and none for the other, where a search may be rejected; any
\* search may meet an overloaded upstream
SomeResponses(subreddit) ==
    { HttpResponse(503, None, "", <<>>) } \cup
    IF Lower(normalize_subreddit(subreddit)) = "other"
    THEN { HttpResponse(200, None, "ok", <<>>),
           HttpResponse(404, None, "", <<>>) }
    ELSE { HttpResponse(200, None, "ok", <<P1, P3>>),
           HttpResponse(200, None, "ok", <<P2, P5>>) }

Next == ScanNext(SomeResponses) \/ \E d \in TickSteps : Tick(d)

Spec == Init /\ [][Next]_vars

\* one scan request at one time, the upstream answering in every way
FetchInit == sel = SelIdle /\ call = NoCall /\ ScanInit({1}, MaxScanFaults)
AllResponses(subreddit) == OkResponses \cup FailedResponses
FetchNext == ScanNext(AllResponses)
FetchSpec == FetchInit /\ [][FetchNext]_vars

\* one scan of a subject with more posts than comments are fetched for, a
\* comment search failing or not
ManyResponses(subreddit) == { HttpResponse(200, None, "ok", ManyBatch) }
SampleNext == ScanNext(ManyResponses)
SampleSpec == FetchInit /\ [][SampleNext]_vars

\* get_cache_status (server.py:1191-1208): the reply to a status query
StatusReply(subreddit) ==
    LET normalized == Lower(normalize_subreddit(subreddit))
        current_time == now
    IN  IF normalized \in DOMAIN reddit_cache
        THEN LET cache_entry == reddit_cache[normalized]
                 cache_age == current_time - cache_entry.timestamp
             IN  [ cached |-> TRUE,
                   valid |-> IsFresh(cache_age),
                   age_seconds |-> WholeSeconds(cache_age),
                   expires_in |-> Max(0, WholeSeconds(Seconds(CACHE_TTL_SECONDS) - cache_age)),
                   post_count |-> Cardinality(DOMAIN cache_entry.data) ]
        ELSE NoStatusReply

\* the status query: it reads the result cache and the clock
get_cache_status_Sweeping(subreddit) ==
    /\ cache_status' = StatusReply(subreddit)
    /\ reddit_cache' = IF cache_status'.cached /\ ~cache_status'.valid
                       THEN Remove(reddit_cache, Lower(normalize_subreddit(subreddit)))
                       ELSE reddit_cache
    /\ UNCHANGED <<sel, call, now, comments_cache, last_scan_times, scan, budget>>
get_cache_status(subreddit) ==
    /\ cache_status' = StatusReply(subreddit)
    /\ UNCHANGED <<sel, call, now, reddit_cache, comments_cache, last_scan_times, scan, budget>>

\* three requests that arrive one after the other, each when the scan before
\* it has ended, the clock, an upstream that answers with one list, and
\* status queries at any time
NoScanInFlight == \A q \in DOMAIN scan : scan[q].pc \in {"idle", "done"}
OneResponse(subreddit) == { HttpResponse(200, None, "ok", <<P1, P3>>) }
SerialInit == sel = SelIdle /\ call = NoCall /\ ScanInit({1, 2, 3}, MaxFaults)
SerialNext ==
    \/ NoScanInFlight /\ Requests
    \/ Answers(OneResponse)
    \/ \E d \in TickSteps : Tick(d)
    \/ \E subreddit \in Subreddits : get_cache_status(subreddit)
SerialSpec == SerialInit /\ [][SerialNext]_vars

(***************************************************************************)
(* The selector as a state machine: one call, one loop iteration a step.   *)
(***************************************************************************)
SelInit ==
    /\ \E posts \in SelInputs : sel = [pc |-> "call", posts |-> posts]
    /\ call = NoCall
    /\ ScanInit({}, 0)

\* lines 459-476
SelSort ==
    /\ sel.pc = "call"
    /\ sel' = [posts |-> sel.posts] @@ SelStart(sel.posts, StartTime)
    /\ UNCHANGED scan_vars

\* lines 478-505
SelFirstPass ==
    /\ sel.pc = "first_pass"
    /\ sel' = FirstPassStep(sel)
    /\ UNCHANGED scan_vars

\* lines 508-510
SelSecondPassEnter ==
    /\ sel.pc = "check"
    /\ sel' = SecondPassEnter(sel)
    /\ UNCHANGED scan_vars

\* lines 512-525
SelSecondPass ==
    /\ sel.pc = "second_pass"
    /\ sel' = SecondPassStep(sel)
    /\ UNCHANGED scan_vars

\* lines 527-531
SelDone ==
    /\ sel.pc = "return"
    /\ sel' = [sel EXCEPT !.pc = "done", !.selected = SelReturn(sel)]
    /\ UNCHANGED scan_vars

SelNext == SelSort \/ SelFirstPass \/ SelSecondPassEnter \/ SelSecondPass \/ SelDone

SelSpec == SelInit /\ [][SelNext]_vars

(***************************************************************************)
(* apply_quality_filter and select_best_comments called on their own: one  *)
(* call, of one of the two, on a list drawn from the lists below.          *)
(***************************************************************************)
\* the posts on both sides of each bound of the filter's condition
PostShapes ==
    [num_comments : {0, 1}, score : {1, 2}, selftext : {0, 79, 80}, title : {24, 25}]

\* the lists of at most MaxListLen such posts; the post at place k has id k
FilterInputs ==
    UNION { { [k \in 1..n |->
                 Post(k, 0, f[k].num_comments, f[k].score, 3600, f[k].selftext,
                      f[k].title)] \o <<>> : f \in [1..n -> PostShapes] } :
            n \in 0..MaxListLen }

\* comments with equal and different scores, bodies below the truncation
\* length and two lengths above it, and two creation times
CommentShapes ==
    [score : {1, 2},
     body : {100, COMMENT_BODY_TRUNCATE + 100, COMMENT_BODY_TRUNCATE + 200},
     created_utc : {10, 20}]

Comment(id, shape) ==
    [id |-> id, body |-> shape.body, score |-> shape.score,
     created_utc |-> shape.created_utc]

\* the twelve shapes in one order, least key first
ShapesInOrder ==
    [k \in 1..12 |->
        [score |-> 1 + ((k - 1) \div 6),
         body |-> <<100, COMMENT_BODY_TRUNCATE + 100,
                    COMMENT_BODY_TRUNCATE + 200>>[1 + (((k - 1) \div 2) % 3)],
         created_utc |-> 10 * (1 + ((k - 1) % 2))]] \o <<>>

\* the list s started at place r + 1 and wrapped around
Rotated(s, r) == [k \in 1..Len(s) |-> s[1 + ((k - 1 + r) % Len(s))]] \o <<>>

\* lists longer than MAX_COMMENTS_PER_POST: the twelve shapes from every
\* starting place, with and without the last one, and twelve equal comments
LongCommentLists ==
    LET shapes(r) == Rotated(ShapesInOrder, r)
    IN  { [k \in 1..n |-> Comment(k, shapes(r)[k])] \o <<>> :
             r \in 0..11, n \in {MAX_COMMENTS_PER_POST + 1, MAX_COMMENTS_PER_POST + 2} }
        \cup { [k \in 1..(MAX_COMMENTS_PER_POST + 2) |->
                  Comment(k, ShapesInOrder[1])] \o <<>> }

CommentInputs ==
    LongCommentLists \cup
    UNION { { [k \in 1..n |-> Comment(k, f[k])] \o <<>> : f \in [1..n -> CommentShapes] } :
            n \in 0..MaxListLen }

(***************************************************************************)
(* The body of one selected comment as a text, a sequence of characters    *)
(* (server.py:548-555): truncation, then re.sub of the pattern             *)
(* /?u/[A-Za-z0-9_-]+ by [user].                                           *)
(***************************************************************************)
\* the characters of the texts: two that may stand in a user name, the
\* slash, and one that is neither
Chars == {"u", "a", "/", " "}
IsNameChar(ch) == ch \in {"u", "a"}
Ellipsis == <<".", ".", ".">>
Placeholder == <<"[", "u", "s", "e", "r", "]">>

\* lines 550-551
TruncateText(body) ==
    IF Len(body) > COMMENT_BODY_TRUNCATE
    THEN SubSeq(body, 1, COMMENT_BODY_TRUNCATE) \o Ellipsis
    ELSE body

\* where the name of a mention that begins at place i of body begins: after
\* "/u/" or, failing that, after "u/"; 0 if no mention begins at i
NameStart(body, i) ==
    LET at(k) == IF k <= Len(body) THEN body[k] ELSE ""
    IN  IF at(i) = "/" /\ at(i + 1) = "u" /\ at(i + 2) = "/" /\ IsNameChar(at(i + 3))
        THEN i + 3
        ELSE IF at(i) = "u" /\ at(i + 1) = "/" /\ IsNameChar(at(i + 2))
        THEN i + 2
        ELSE 0

\* the last place of the longest run of name characters that begins at j
NameEnd(body, j) ==
    SetMax({k \in j..Len(body) : \A m \in j..k : IsNameChar(body[m])})

\* one step of the scan of re.sub from the left: a mention that begins at
\* the place reached is replaced and skipped, any other character is copied
RedactStep(st) ==
    IF st.i > Len(st.body) THEN st
    ELSE LET j == NameStart(st.body, st.i)
         IN  IF j # 0
             THEN [st EXCEPT !.i = NameEnd(st.body, j) + 1, !.out = @ \o Placeholder]
             ELSE [st EXCEPT !.i = @ + 1, !.out = Append(@, st.body[st.i])]

\* line 555
RedactMentions(body) ==
    Iterate(RedactStep, [body |-> body, i |-> 1, out |-> <<>>], Len(body)).out

\* lines 548-555
SelectedBody(body) == RedactMentions(TruncateText(body))

\* the text made of n copies of unit
Repeated(unit, n) ==
    [k \in 1..(n * Len(unit)) |-> unit[1 + ((k - 1) % Len(unit))]] \o <<>>

\* every text of at most MaxListLen + 2 characters, and texts about as long
\* as the truncation length: without a mention, of mentions only, with a
\* mention cut by the truncation, and one long name
BodyInputs ==
    UNION { { f \o <<>> : f \in [1..n -> Chars] } : n \in 0..(MaxListLen + 2) }
    \cup { Repeated(<<" ">>, COMMENT_BODY_TRUNCATE),
           Repeated(<<" ">>, COMMENT_BODY_TRUNCATE + 1),
           Repeated(<<" ">>, COMMENT_BODY_TRUNCATE + 100),
           Repeated(<<"u", "/", "a", " ">>, COMMENT_BODY_TRUNCATE \div 4),
           Repeated(<<"u", "/", "a", " ">>, (COMMENT_BODY_TRUNCATE \div 4) + 1),
           Repeated(<<"/", "u", "/", "a", "a", " ">>, COMMENT_BODY_TRUNCATE \div 5),
           Repeated(<<" ">>, COMMENT_BODY_TRUNCATE - 2) \o <<"u", "/", "a">>,
           <<"u", "/">> \o Repeated(<<"a">>, COMMENT_BODY_TRUNCATE + 100) }

(***************************************************************************)
(* The summarizer's answer and its coercion by analyze_posts_with_ai       *)
(* (server.py:812-866).  A JSON value is a record [type, items, fields]:   *)
(* items are the elements of a list, fields the <<key, value>> pairs of an *)
(* object; a text that json.loads rejects has the type "invalid".          *)
(***************************************************************************)
JValue(type) == [type |-> type, items |-> <<>>, fields |-> <<>>]
JList(items) == [type |-> "list", items |-> items, fields |-> <<>>]
JDict(fields) == [type |-> "dict", items |-> <<>>, fields |-> fields]

\* key in d, d.get(key, default), and d with d[key] = value
HasKey(d, key) == \E k \in 1..Len(d.fields) : d.fields[k][1] = key
GetKey(d, key, default) ==
    IF HasKey(d, key)
    THEN d.fields[CHOOSE k \in 1..Len(d.fields) : d.fields[k][1] = key][2]
    ELSE default
SetKey(d, key, value) ==
    LET IsOther(pair) == pair[1] # key
    IN  JDict(Append(SelectSeq(d.fields, IsOther), <<key, value>>))

\* lines 825-833: the items of a list, coerced: a string becomes the text
\* of an object without evidence, an object keeps its text (or gets its own
\* print as text) and its evidence (or gets an empty list), any other item
\* is dropped
NormalizeItem(item) ==
    IF item.type = "string"
    THEN JDict(<< <<"text", item>>, <<"evidence", JList(<<>>)>> >>)
    ELSE JDict(<< <<"text", GetKey(item, "text", JValue("string"))>>,
                  <<"evidence", GetKey(item, "evidence", JList(<<>>))>> >>)

IsNormalized(item) == item.type \in {"string", "dict"}

NormalizeItems(items) ==
    LET kept == SelectSeq(items, IsNormalized)
    IN  [k \in 1..Len(kept) |-> NormalizeItem(kept[k])] \o <<>>

\* line 834
MAX_INSIGHTS == 5

\* lines 820-834, for one of the two fields
NormalizeField(result, field) ==
    IF ~HasKey(result, field) \/ GetKey(result, field, JValue("null")).type # "list"
    THEN SetKey(result, field, JList(<<>>))
    ELSE SetKey(result, field,
                JList(Take(NormalizeItems(GetKey(result, field, JValue("null")).items),
                           MAX_INSIGHTS)))

\* lines 848-866: what is returned when the answer does not parse or the
\* coercion raises
FallbackAnalysis ==
    JDict(<< <<"pain_points", JList(<<>>)>>, <<"wins", JList(<<>>)>> >>)

\* lines 815-846: the answer parsed and coerced (an answer that is not an
\* object makes the coercion raise a TypeError)
NormalizeAnalysis(response) ==
    IF response.type # "dict" THEN FallbackAnalysis
    ELSE NormalizeField(NormalizeField(response, "pain_points"), "wins")

\* the items a list of the answer may hold: a string, a number, null, a
\* list, and objects with or without a text and an evidence of any type
TextShapes == {"missing", "string", "number"}
EvidenceShapes == {"missing", "list", "string", "null", "dict"}
ItemDict(text, evidence) ==
    JDict((IF text = "missing" THEN <<>> ELSE << <<"text", JValue(text)>> >>) \o
          (IF evidence = "missing" THEN <<>> ELSE << <<"evidence", JValue(evidence)>> >>))
ItemShapes ==
    {JValue(t) : t \in {"string", "number", "null", "list"}}
    \cup {ItemDict(t, e) : t \in TextShapes, e \in EvidenceShapes}

\* what a field of the answer may be: a list of at most MaxListLen items,
\* a list of two items more than are kept, or not a list
FieldValues ==
    UNION { { JList(f \o <<>>) : f \in [1..n -> ItemShapes] } : n \in 0..MaxListLen }
    \cup { JList([k \in 1..(MAX_INSIGHTS + 2) |-> ItemDict("string", "list")] \o <<>>),
           JValue("string"), JValue("null") }

\* the answers: not JSON, not an object, and objects in which one of the
\* two fields is missing, is a well-formed list, or is any field value
AnalysisInputs ==
    { JValue(t) : t \in {"invalid", "null", "number", "string", "list"} }
    \cup { JDict(<< <<"wins", v>> >>) : v \in FieldValues }
    \cup { JDict(<< <<"pain_points", v>>,
                    <<"wins", JList(<< ItemDict("string", "list") >>)>> >>) :
             v \in FieldValues }

Called(fn, arg) == [fn |-> fn, arg |-> arg, returned |-> FALSE, ret |-> <<>>]

CallInit ==
    /\ sel = SelIdle
    /\ ScanInit({}, 0)
    /\ call \in { Called("apply_quality_filter", posts) : posts \in FilterInputs }
                \cup { Called("select_best_comments", comments) :
                          comments \in CommentInputs }
                \cup { Called("select_best_comments: body", body) :
                          body \in BodyInputs }
                \cup { Called("analyze_posts_with_ai", response) :
                          response \in AnalysisInputs }

\* lines 408-431
QualityFilterCall ==
    /\ call.fn = "apply_quality_filter"
    /\ ~call.returned
    /\ call' = [call EXCEPT !.returned = TRUE, !.ret = apply_quality_filter(call.arg)]
    /\ UNCHANGED <<sel, now, reddit_cache, comments_cache, last_scan_times, scan,
                   budget, cache_status>>

\* lines 534-563
SelectBestCommentsCall ==
    /\ call.fn = "select_best_comments"
    /\ ~call.returned
    /\ call' = [call EXCEPT !.returned = TRUE, !.ret = select_best_comments(call.arg)]
    /\ UNCHANGED <<sel, now, reddit_cache, comments_cache, last_scan_times, scan,
                   budget, cache_status>>

\* lines 548-555, for one selected comment
SelectedBodyCall ==
    /\ call.fn = "select_best_comments: body"
    /\ ~call.returned
    /\ call' = [call EXCEPT !.returned = TRUE, !.ret = SelectedBody(call.arg)]
    /\ UNCHANGED <<sel, now, reddit_cache, comments_cache, last_scan_times, scan,
                   budget, cache_status>>

\* lines 812-866
AnalyzePostsCall ==
    /\ call.fn = "analyze_posts_with_ai"
    /\ ~call.returned
    /\ call' = [call EXCEPT !.returned = TRUE, !.ret = NormalizeAnalysis(call.arg)]
    /\ UNCHANGED <<sel, now, reddit_cache, comments_cache, last_scan_times, scan,
                   budget, cache_status>>

CallNext ==
    QualityFilterCall \/ SelectBestCommentsCall \/ SelectedBodyCall \/ AnalyzePostsCall

CallSpec == CallInit /\ [][CallNext]_vars

(***************************************************************************)
(* Properties of the selector (checked under SelSpec).                     *)
(***************************************************************************)
SelRunning == sel.pc \in {"first_pass", "check", "second_pass", "return", "done"}
SelFinished == sel.pc = "done"
IsRecent(post) == post.created_utc > StartTime - Seconds(THREE_DAYS)
IsOld(post) == ~IsRecent(post)
HasNoReplies(post) == post.num_comments = 0
ByAuthor(s, a) == Cardinality({k \in 1..Len(s) : s[k].author = a})

\* C4: the output of the selector holds at most 3 posts of any one author,
\* the empty author counting as one author.  (Violated: the second pass
\* admits deferred posts without looking at the author cap.)
C4_AuthorCapInOutput ==
    SelFinished =>
        \A k \in 1..Len(sel.selected) :
            ByAuthor(sel.selected, sel.selected[k].author) <= MAX_POSTS_PER_AUTHOR

\* C5: the output of the selector holds at most 20 posts with zero replies.
\* (Violated: the second pass admits deferred zero-reply posts.)
C5_NoCommentCapInOutput ==
    SelFinished => Count(sel.selected, HasNoReplies) <= MAX_NO_COMMENT_POSTS

\* C6: an input with at least 20 posts of the last 3 days and at least 100
\* older posts gives an output with at least 20 posts of the last 3 days.
\* (Violated: the first pass stops at 100 admitted posts and never looks at
\* the recent posts ranked below them, so none is deferred.)
C6_RecentQuotaMet ==
    (/\ SelFinished
     /\ Count(sel.posts, IsRecent) >= MIN_RECENT_POSTS
     /\ Count(sel.posts, IsOld) >= MAX_POSTS_FINAL)
    => Count(sel.selected, IsRecent) >= MIN_RECENT_POSTS

\* C7: at every point of the first and of the second pass, and in the output,
\* at most 100 posts are admitted.
C7_GlobalCap == SelRunning => Len(sel.selected) <= MAX_POSTS_FINAL

\* C7 witness: the second pass has swapped a deferred post into a full
\* selection, and the call has returned 100 posts.
C7_Witness ==
    /\ SelFinished
    /\ Len(sel.selected) = MAX_POSTS_FINAL
    /\ sel.j > 1
    /\ Len(sel.posts) > MAX_POSTS_FINAL

(***************************************************************************)
(* Properties of the scans (checked under Spec and FetchSpec).             *)
(***************************************************************************)
ScanDone(p) == scan[p].pc = "done"
Subject(p) == Lower(normalize_subreddit(scan[p].subreddit))
\* the scan passed the throttle check and sent a post search to the upstream
StartedFetch(p) == scan[p].accepted /\ scan[p].requested # <<>>
OverloadStatuses == {429, 502, 503, 504}
RejectionStatuses == {404, 403}

\* C1: a scan that starts an upstream fetch for a subject does so at least
\* 30 s after every earlier scan attempt for the same subject that passed the
\* throttle check, whether that attempt has ended or is still in flight.
\* (Violated: the time of an attempt is recorded when its fetch has ended, so
\* a request that arrives during the fetch passes the throttle check.)
C1_NoFetchWithinThrottleOfAttempt ==
    \A p, q \in DOMAIN scan :
        (/\ q < p
         /\ scan[q].accepted
         /\ StartedFetch(p)
         /\ Subject(p) = Subject(q))
        => scan[p].accepted_at - scan[q].accepted_at >= Seconds(THROTTLE_SECONDS)

\* C2: a scan whose result comes from the result cache found an entry
\* younger than 600 s; a scan that finds an entry of 600 s or more sends a
\* post search to the upstream and its result is not marked cached.
C2_ExpiredEntryNotServed ==
    \A p \in DOMAIN scan :
        /\ (ScanDone(p) /\ scan[p].result.cached)
           => (scan[p].in_cache /\ scan[p].cache_age < Seconds(CACHE_TTL_SECONDS))
        /\ (scan[p].accepted /\ scan[p].in_cache
              /\ scan[p].cache_age >= Seconds(CACHE_TTL_SECONDS))
           => (scan[p].requested # <<>> /\ ~scan[p].result.cached)

\* C2 witness: a scan found an entry of exactly 600 s, fetched from the
\* upstream and returned posts that are not marked cached.
C2_Witness ==
    \E p \in DOMAIN scan :
        /\ ScanDone(p)
        /\ scan[p].in_cache
        /\ scan[p].cache_age = Seconds(CACHE_TTL_SECONDS)
        /\ scan[p].requested # <<>>
        /\ scan[p].result.post_count > 0
        /\ ~scan[p].result.cached

\* C3: a scan that writes the result cache ended without an error and every
\* one of its comment fetches succeeded.  (Violated: the error of a comment
\* fetch is dropped and the entry is written with the posts' comments
\* missing.)
C3_CacheWrittenOnlyByFullSuccess ==
    \A p \in DOMAIN scan :
        scan[p].wrote_cache
        => (scan[p].result.error = None /\ scan[p].comment_errors = 0)

\* C8: when the answer to a window's post search is HTTP 429, 502, 503 or
\* 504, the scan sends no post search for a later window and no comment
\* search, ends with that error and no posts, whatever the earlier windows
\* gave, and writes no cache entry.
C8_OverloadAborts ==
    \A p \in DOMAIN scan :
        \A i \in 1..Len(scan[p].log) :
            scan[p].log[i].status \in OverloadStatuses
            => /\ i = Len(scan[p].log)
               /\ Len(scan[p].requested) = i
               /\ ScanDone(p)
               /\ scan[p].result.error = scan[p].log[i].error
               /\ scan[p].result.error # None
               /\ scan[p].result.posts = <<>>
               /\ scan[p].result.post_count = 0
               /\ ~scan[p].result.cached
               /\ scan[p].comment_requests = 0
               /\ ~scan[p].wrote_cache
               /\ Subject(p) \notin DOMAIN reddit_cache

\* C8 witness: the first window gave posts that pass the quality filter, the
\* second window was answered with an overload status, and the scan is over.
C8_Witness ==
    \E p \in DOMAIN scan :
        /\ ScanDone(p)
        /\ Len(scan[p].log) = 2
        /\ scan[p].log[1].filtered > 0
        /\ scan[p].log[2].status \in OverloadStatuses

\* the no-content outcome of a scan: its message and its diagnostics
NoContentOutcome(p) ==
    /\ ScanDone(p)
    /\ scan[p].result.error = NoPostsMessage
    /\ scan[p].result.debug_info.error_details = "No posts found in any time window"

\* C9: a scan ends with the no-content outcome only if every one of its
\* post searches was answered with a 200 response that parsed and held no
\* acceptable post.  (Violated: a window that fails with a status other than
\* 429, 502, 503, 504, with a transport error or with a format error is
\* skipped, and the scan ends with the no-content message and diagnostics.)
C9_NoContentOnlyAfterCleanWindows ==
    \A p \in DOMAIN scan :
        NoContentOutcome(p)
        => \A i \in 1..Len(scan[p].log) :
               /\ scan[p].log[i].status = 200
               /\ scan[p].log[i].error = None
               /\ scan[p].log[i].filtered = 0

\* C10 as stated: after a post search is answered with HTTP 404 or 403 the
\* scan sends no further post search.  (Violated: the scan goes on to the
\* next window.)
C10_NoRequestAfterRejection ==
    \A p \in DOMAIN scan :
        \A i \in 1..Len(scan[p].log) :
            scan[p].log[i].status \in RejectionStatuses
            => Len(scan[p].requested) = i

\* C10 amended: after a post search is answered with HTTP 404 or 403 the scan
\* does not send the search for that window again; it sends the search for
\* the next window if there is one.
C10_RejectedWindowNotRetried ==
    \A p \in DOMAIN scan :
        \A i \in 1..Len(scan[p].log) :
            scan[p].log[i].status \in RejectionStatuses
            => /\ \A j \in 1..Len(scan[p].requested) :
                      scan[p].requested[j] = scan[p].log[i].window => j = i
               /\ i < Len(Windows)
                  => (Len(scan[p].requested) > i /\ scan[p].requested[i + 1] = i + 1)
               /\ i = Len(Windows) => Len(scan[p].requested) = i

\* C10 witness: the first window's search was answered with 404 or 403 and
\* the scan went through the three windows.
C10_Witness ==
    \E p \in DOMAIN scan :
        /\ ScanDone(p)
        /\ scan[p].log # <<>>
        /\ scan[p].log[1].status \in RejectionStatuses
        /\ scan[p].requested = <<1, 2, 3>>

\* the request of scan p is taken in this step
Arrives(p) == scan[p].pc = "idle" /\ scan'[p].pc # "idle"
\* scan p was rejected by the throttle
Throttled(p) == ScanDone(p) /\ ~scan[p].accepted
\* the subject that scan p names after this step has a recorded scan less
\* than 30 s before now
RecordedWithinThrottle(p) ==
    LET normalized == Lower(normalize_subreddit(scan'[p].subreddit))
    IN  /\ normalized \in DOMAIN last_scan_times
        /\ now - last_scan_times[normalized] >= 0
        /\ now - last_scan_times[normalized] < Seconds(THROTTLE_SECONDS)

\* C11: a scan request that arrives less than 30 s after the recorded time of
\* a scan of the same normalized subject is rejected by the throttle, with a
\* remaining-seconds value of at least 1.  (Violated: int() truncates the
\* remaining time, which is 0 when more than 29 s have elapsed.)
C11_RejectedWithPositiveRemaining ==
    [][\A p \in DOMAIN scan :
          (Arrives(p) /\ RecordedWithinThrottle(p))
          => (/\ scan'[p].pc = "done"
              /\ ~scan'[p].accepted
              /\ scan'[p].result.seconds_remaining > 0)]_vars

\* scan p passed the throttle check and has ended, whatever its outcome
Ended(p) == ScanDone(p) /\ scan[p].accepted
\* a scan of the subject that scan p names after this step has ended less
\* than 30 s before now
EndedWithinThrottle(p) ==
    \E q \in DOMAIN scan :
        /\ Ended(q)
        /\ Subject(q) = Lower(normalize_subreddit(scan'[p].subreddit))
        /\ now - scan[q].done_at < Seconds(THROTTLE_SECONDS)

\* C12: once a scan that passed the throttle check has ended, with posts, a
\* cached result, an overload abort, no content or an upstream error, the
\* throttle map holds for its subject a time not before its end; and a
\* request for the same subject that arrives less than 30 s after that end
\* is rejected by the throttle.
C12_EveryOutcomeRecorded ==
    /\ [](\A p \in DOMAIN scan :
             Ended(p) => /\ Subject(p) \in DOMAIN last_scan_times
                         /\ last_scan_times[Subject(p)] >= scan[p].done_at)
    /\ [][\A p \in DOMAIN scan :
             (Arrives(p) /\ EndedWithinThrottle(p))
             => (scan'[p].pc = "done" /\ ~scan'[p].accepted)]_vars

\* C12 witness: a scan ended with an error and no posts, and a retry for the
\* same subject was rejected by the throttle.
C12_Witness ==
    \E p, q \in DOMAIN scan :
        /\ Ended(p)
        /\ scan[p].result.error # None
        /\ scan[p].result.post_count = 0
        /\ Throttled(q)
        /\ Subject(q) = Subject(p)

\* scan p is rejected by the throttle in this step
RejectedNow(p) == Arrives(p) /\ scan'[p].pc = "done" /\ ~scan'[p].accepted
\* every scan of the subject that scan p names after this step that passed
\* the throttle check ended 30 s or more before now
NoneEndedWithinThrottle(p) ==
    \A q \in DOMAIN scan :
        (Ended(q) /\ Subject(q) = Lower(normalize_subreddit(scan'[p].subreddit)))
        => now - scan[q].done_at >= Seconds(THROTTLE_SECONDS)

\* C13: a request rejected by the throttle sends no post search and no
\* comment search and leaves the throttle map, the result cache and the
\* comment cache as they were; so a request that arrives 30 s or more after
\* the end of every accepted scan of its subject is accepted, whatever
\* requests were rejected in between.
C13_RejectionChangesNothing ==
    /\ [][\A p \in DOMAIN scan :
             RejectedNow(p)
             => (/\ last_scan_times' = last_scan_times
                 /\ reddit_cache' = reddit_cache
                 /\ comments_cache' = comments_cache
                 /\ scan'[p].requested = <<>>
                 /\ scan'[p].comment_requests = 0)]_vars
    /\ [][\A p \in DOMAIN scan :
             (Arrives(p) /\ NoScanInFlight /\ NoneEndedWithinThrottle(p))
             => scan'[p].accepted]_vars

\* C13 witness: a scan ended, a request for its subject was rejected 29.5 s
\* later, and a third request was accepted 30 s after the end of the first.
C13_Witness ==
    /\ Ended(1)
    /\ Throttled(2)
    /\ scan[3].accepted
    /\ Subject(2) = Subject(1)
    /\ Subject(3) = Subject(1)
    /\ scan[3].accepted_at = scan[1].done_at + Seconds(THROTTLE_SECONDS)

\* scan p passes the throttle check in this step
AcceptedNow(p) == Arrives(p) /\ scan'[p].accepted
\* a scan of the subject that scan p names after this step wrote the result
\* cache less than 600 s before now
WrittenWithinTTL(p) ==
    \E q \in DOMAIN scan :
        /\ Ended(q)
        /\ scan[q].wrote_cache
        /\ Subject(q) = Lower(normalize_subreddit(scan'[p].subreddit))
        /\ now - scan[q].done_at < Seconds(CACHE_TTL_SECONDS)

\* C14: a scan that passes the throttle check less than 600 s after a scan of
\* the same subject wrote the result cache returns the entry's posts and
\* comment bundles, marked cached, and sends no post search.  (Violated: the
\* entry's timestamp is the time the writing scan started, not the time of
\* the write, so the entry expires 600 s after that start.)
C14_ReadWithinTTLOfWriteHits ==
    [][\A p \in DOMAIN scan :
          (AcceptedNow(p) /\ WrittenWithinTTL(p))
          => LET entry == reddit_cache[Lower(normalize_subreddit(scan'[p].subreddit))]
             IN  /\ scan'[p].pc = "done"
                 /\ scan'[p].result.cached
                 /\ scan'[p].result.posts = entry.data.posts
                 /\ scan'[p].result.post_comments = entry.data.comments
                 /\ scan'[p].requested = <<>>]_vars

\* C15: a step in which a status query is answered leaves the result cache,
\* the comment cache, the throttle map and every scan as they were, so no
\* scan is started and no upstream request is sent by it.
C15_StatusQueryReadsOnly ==
    [][cache_status' # cache_status
       => (/\ reddit_cache' = reddit_cache
           /\ comments_cache' = comments_cache
           /\ last_scan_times' = last_scan_times
           /\ scan' = scan
           /\ budget' = budget)]_vars

\* C15 witness: a status query found an entry of 600 s or more, reported it
\* as not valid, and the entry is still in the result cache.
C15_Witness ==
    /\ cache_status.cached
    /\ ~cache_status.valid
    /\ cache_status.age_seconds >= CACHE_TTL_SECONDS
    /\ "testgame" \in DOMAIN reddit_cache

\* scan p wrote the result cache
Wrote(p) == Ended(p) /\ scan[p].wrote_cache
\* scan p is the last of the scans of its subject that wrote the result cache
WroteLast(p) ==
    /\ Wrote(p)
    /\ \A q \in DOMAIN scan :
           (Wrote(q) /\ Subject(q) = Subject(p)) => scan[q].write_no <= scan[p].write_no
\* the value scan p wrote
WrittenBy(p) ==
    [data |-> [posts |-> scan[p].result.posts,
               comments |-> scan[p].result.post_comments],
     timestamp |-> scan[p].accepted_at]

\* C16: scans of one subject do not exclude each other: two scans that both
\* found no entry run their pipelines and both write the cache, and the
\* entry is the value of the scan of the subject that wrote last.
C16_LastWriteWins ==
    \A p \in DOMAIN scan :
        WroteLast(p) => reddit_cache[Subject(p)] = WrittenBy(p)

\* C16 witness: two scans of one subject both found no entry, both fetched
\* and wrote, with different posts, and the entry is the second write.
C16_Witness ==
    \E p, q \in DOMAIN scan :
        /\ Wrote(p) /\ Wrote(q)
        /\ Subject(p) = Subject(q)
        /\ ~scan[p].in_cache /\ ~scan[q].in_cache
        /\ scan[p].write_no < scan[q].write_no
        /\ scan[p].result.posts # scan[q].result.posts
        /\ reddit_cache[Subject(q)] = WrittenBy(q)
        /\ reddit_cache[Subject(q)] # WrittenBy(p)

\* scan p has run the selection and samples comments
Sampling(p) == scan[p].pc \in {"comment", "sleep"}
\* the lists the quality filter leaves of the lists a search returns; no two
\* of them have the same length, so that the filtered count the log keeps of
\* a window names the window's filtered posts
FilteredLists == {apply_quality_filter(b) : b \in Batches}
CountNamesList == \A f, g \in FilteredLists : Len(f) = Len(g) => f = g
\* the filtered posts of the i-th window scan p was answered for
WindowOutput(p, i) ==
    CHOOSE f \in FilteredLists : Len(f) = scan[p].log[i].filtered
\* every window of scan p was answered without an error and with fewer than
\* 150 posts left by the quality filter
AllWindowsBelowThreshold(p) ==
    /\ Len(scan[p].log) = Len(Windows)
    /\ \A i \in 1..Len(scan[p].log) :
           scan[p].log[i].error = None /\ scan[p].log[i].filtered < ENOUGH_POSTS
\* the earliest window of scan p with the greatest count of filtered posts
BestWindow(p) ==
    LET log == scan[p].log
        most == SetMax({log[i].filtered : i \in 1..Len(log)})
    IN  CHOOSE i \in 1..Len(log) :
            /\ log[i].filtered = most
            /\ \A j \in 1..(i - 1) : log[j].filtered < most

\* C17: when every window is answered without an error and with fewer than
\* 150 filtered posts, the posts the selection is run on are those of the
\* earliest window with the greatest filtered count, and window_used names
\* that window.
C17_LargestWindowUsed ==
    \A p \in DOMAIN scan :
        (Sampling(p) /\ AllWindowsBelowThreshold(p))
        => /\ CountNamesList
           /\ scan[p].posts = WindowOutput(p, BestWindow(p))
           /\ scan[p].used_window = Windows[BestWindow(p)]
           /\ scan[p].debug.window_used = Windows[BestWindow(p)]

\* C17 witness: the second and the third window gave the same count of
\* filtered posts, more than the first, and the second window is used.
C17_Witness ==
    \E p \in DOMAIN scan :
        /\ Sampling(p)
        /\ AllWindowsBelowThreshold(p)
        /\ scan[p].log[1].filtered > 0
        /\ scan[p].log[2].filtered > scan[p].log[1].filtered
        /\ scan[p].log[3].filtered = scan[p].log[2].filtered
        /\ scan[p].debug.window_used = Windows[2]

----------------------------------------------------------------------------
\* entry i of the log of scan p is a window answered without an error whose
\* filtered count reaches the threshold
ReachesThreshold(p, i) ==
    /\ scan[p].log[i].error = None
    /\ scan[p].log[i].filtered >= ENOUGH_POSTS

\* C18: the post searches of a scan are sent for the windows 8d..36h,
\* 8d..12h, 8d..0h in that order; once a window is answered with at least 150
\* posts left by the quality filter, no search for a later window is sent,
\* the selection is run on exactly that window's filtered posts, and
\* window_used names that window.
C18_ThresholdWindowUsedAndLast ==
    \A p \in DOMAIN scan :
        /\ Windows = <<"8d..36h", "8d..12h", "8d..0h">>
        /\ \A j \in 1..Len(scan[p].requested) : scan[p].requested[j] = j
        /\ \A i \in 1..Len(scan[p].log) :
               ReachesThreshold(p, i)
               => /\ CountNamesList
                  /\ i = Len(scan[p].log)
                  /\ Len(scan[p].requested) = i
                  /\ scan[p].pc # "window"
                  /\ Sampling(p)
                     => /\ scan[p].posts = WindowOutput(p, i)
                        /\ scan[p].used_window = Windows[i]
                        /\ scan[p].debug.window_used = Windows[i]
                        /\ scan[p].final_posts
                              = apply_diversity_and_recency(WindowOutput(p, i), now)
                  /\ ScanDone(p)
                     => scan[p].result.debug_info.window_used = Windows[i]

\* C18 witness: the first window gave some posts, fewer than 150, the second
\* window gave 150, and the scan went on to sample comments on the second
\* window's posts without a third search.
C18_Witness ==
    \E p \in DOMAIN scan :
        /\ Sampling(p)
        /\ Len(scan[p].log) = 2
        /\ scan[p].log[1].error = None
        /\ scan[p].log[1].filtered > 0
        /\ scan[p].log[1].filtered < ENOUGH_POSTS
        /\ ReachesThreshold(p, 2)
        /\ scan[p].requested = <<1, 2>>
        /\ scan[p].debug.window_used = Windows[2]

----------------------------------------------------------------------------
(***************************************************************************)
(* Properties of the helpers called on their own (checked under CallSpec). *)
(***************************************************************************)
Returned(fn) == call.fn = fn /\ call.returned

\* the condition of the specification under which the filter drops a post
Dropped(post) ==
    /\ post.num_comments = 0
    /\ post.score <= 1
    /\ post.selftext < 80
    /\ post.title < 25

\* the places of the posts of the list posts that are not to be dropped, and
\* the j-th of them
KeptPlaces(posts) == {k \in 1..Len(posts) : ~Dropped(posts[k])}
KeptPlace(posts, j) ==
    CHOOSE k \in KeptPlaces(posts) :
        Cardinality({i \in KeptPlaces(posts) : i <= k}) = j

\* C19: apply_quality_filter returns the posts of its argument for which
\* num_comments = 0, score <= 1, len(selftext) < 80 and len(title) < 25 do
\* not all hold, each of them once and unchanged, in the order of the
\* argument.
C19_FilterDropsExactlyLowQuality ==
    Returned("apply_quality_filter")
    => /\ Len(call.ret) = Cardinality(KeptPlaces(call.arg))
       /\ \A j \in 1..Len(call.ret) : call.ret[j] = call.arg[KeptPlace(call.arg, j)]

\* C19 witness: of two posts the first is dropped with every quantity at its
\* bound (no comment, score 1, 79 characters of text, 24 of title) and the
\* second is kept for its title of 25 characters alone.
C19_Witness ==
    /\ Returned("apply_quality_filter")
    /\ Len(call.arg) = 2
    /\ \A k \in 1..2 : call.arg[k].num_comments = 0 /\ call.arg[k].score = 1
    /\ call.arg[1].selftext = 79 /\ call.arg[1].title = 24
    /\ call.arg[2].selftext = 79 /\ call.arg[2].title = 25
    /\ call.ret = <<call.arg[2]>>

\* comment a sorts at or before comment b: descending by score, then by the
\* length of the whole body, then by creation time
SortsBefore(a, b) ==
    \/ a.score > b.score
    \/ a.score = b.score /\ a.body > b.body
    \/ a.score = b.score /\ a.body = b.body /\ a.created_utc >= b.created_utc

\* the place in the list comments of the comment returned as item
PlaceOf(comments, item) == CHOOSE k \in 1..Len(comments) : comments[k].id = item.id

\* C20: select_best_comments returns min(10, n) of the n comments of its
\* argument, each at most once; the returned comments are in descending
\* order of score, then of the length of the untruncated body, then of
\* creation time, and no comment left out sorts strictly before a returned
\* one; of two returned comments of equal score and different body length
\* the longer comes first.
C20_BestCommentsInOrder ==
    Returned("select_best_comments")
    => LET comments == call.arg
           selected == call.ret
           place(j) == PlaceOf(comments, selected[j])
           places == {place(j) : j \in 1..Len(selected)}
       IN  /\ Len(selected) = Min(MAX_COMMENTS_PER_POST, Len(comments))
           /\ \A j \in 1..Len(selected) :
                  \E k \in 1..Len(comments) : comments[k].id = selected[j].id
           /\ Cardinality(places) = Len(selected)
           /\ \A i, j \in 1..Len(selected) :
                  i < j => /\ SortsBefore(comments[place(i)], comments[place(j)])
                           /\ (comments[place(i)].score = comments[place(j)].score
                               => comments[place(i)].body >= comments[place(j)].body)
           /\ \A k \in (1..Len(comments)) \ places :
                  \A j \in 1..Len(selected) :
                      SortsBefore(comments[place(j)], comments[k])

\* C20 witness: of twelve comments ten are returned, and two of the returned
\* ones have the same score and bodies both longer than the truncation
\* length, the longer one coming first in the result and later in the
\* argument.
C20_Witness ==
    /\ Returned("select_best_comments")
    /\ Len(call.arg) = MAX_COMMENTS_PER_POST + 2
    /\ Len(call.ret) = MAX_COMMENTS_PER_POST
    /\ \E i, j \in 1..Len(call.ret) :
           LET a == call.arg[PlaceOf(call.arg, call.ret[i])]
               b == call.arg[PlaceOf(call.arg, call.ret[j])]
           IN  /\ i < j
               /\ a.score = b.score
               /\ a.body > b.body
               /\ b.body > COMMENT_BODY_TRUNCATE
               /\ PlaceOf(call.arg, call.ret[i]) > PlaceOf(call.arg, call.ret[j])

\* C21: every body the comment sampler returns has at most 403 characters,
\* whatever the input body, user mentions included.  (Violated: the mention
\* is replaced after the truncation and "[user]" is longer than the
\* shortest mention, "u/a", so a body of mentions grows past 403.)
C21_BodyAtMost403 ==
    Returned("select_best_comments: body")
    => Len(call.ret) <= COMMENT_BODY_TRUNCATE + Len(Ellipsis)

----------------------------------------------------------------------------
\* scan p ended with a result that carries no error
Succeeded(p) == ScanDone(p) /\ scan[p].accepted /\ scan[p].result.error = None

\* C22: in every result without an error, fresh or served from the result
\* cache, debug_info.total_comments equals comments_sampled.  (Violated: a
\* result served from the cache carries diagnostics made anew, whose
\* total_comments is 0, and the comments_sampled of the cached comments.)
C22_TotalCommentsIsSampled ==
    \A p \in DOMAIN scan :
        Succeeded(p)
        => scan[p].result.debug_info.total_comments = scan[p].result.comments_sampled

----------------------------------------------------------------------------
\* the count of posts of the list posts that rank strictly above post
RankedAbove(posts, post) ==
    Cardinality({k \in 1..Len(posts) :
                    calculate_post_rank(posts[k]) > calculate_post_rank(post)})

\* C23: a comment search is sent only for a post of the final selection
\* that fewer than 15 posts of the selection rank above; a scan sends at most
\* 15 comment searches, and comments_fetched_for is at most 15.
C23_CommentsOnlyForTopPosts ==
    \A p \in DOMAIN scan :
        /\ scan[p].comment_requests <= TOP_POSTS_FOR_COMMENTS
        /\ scan[p].pc = "comment"
           => LET post == scan[p].ranked_for_comments[scan[p].c]
              IN  /\ \E k \in 1..Len(scan[p].final_posts) : scan[p].final_posts[k] = post
                  /\ RankedAbove(scan[p].final_posts, post) < TOP_POSTS_FOR_COMMENTS
                  /\ scan[p].c <= TOP_POSTS_FOR_COMMENTS
        /\ ScanDone(p)
           => scan[p].result.debug_info.comments_fetched_for <= TOP_POSTS_FOR_COMMENTS

\* C23 witness: a scan whose final selection has more than 15 posts ended
\* after 15 comment searches, with comments for 15 posts.
C23_Witness ==
    \E p \in DOMAIN scan :
        /\ Succeeded(p)
        /\ scan[p].result.debug_info.final_post_count > TOP_POSTS_FOR_COMMENTS
        /\ scan[p].comment_requests = TOP_POSTS_FOR_COMMENTS
        /\ scan[p].result.debug_info.comments_fetched_for = TOP_POSTS_FOR_COMMENTS

----------------------------------------------------------------------------
\* item is an object with a text and with an evidence that is a list
WellFormedInsight(item) ==
    /\ item.type = "dict"
    /\ HasKey(item, "text")
    /\ HasKey(item, "evidence")
    /\ GetKey(item, "evidence", JValue("null")).type = "list"

\* C24: whatever the summarizer answers, pain_points and wins of the coerced
\* result are lists of at most 5 objects, each with a text and with an
\* evidence that is a list.  (Violated: the evidence of an object is copied
\* as it is, whatever its type.)
C24_InsightsWellFormed ==
    Returned("analyze_posts_with_ai")
    => \A field \in {"pain_points", "wins"} :
           LET insights == GetKey(call.ret, field, JValue("null"))
           IN  /\ insights.type = "list"
               /\ Len(insights.items) <= MAX_INSIGHTS
               /\ \A k \in 1..Len(insights.items) : WellFormedInsight(insights.items[k])

----------------------------------------------------------------------------
\* the places of the admitted posts created at or before the 3-day boundary,
\* and of those created after it (the recent ones)
OldPlaces(st) ==
    {k \in 1..Len(st.selected) : st.selected[k].created_utc <= st.three_days_ago}
RecentPlaces(st) ==
    {k \in 1..Len(st.selected) : st.selected[k].created_utc > st.three_days_ago}

----------------------------------------------------------------------------
\* the entry of the log of scan p for the window its diagnostics name
UsedEntry(p) ==
    CHOOSE i \in 1..Len(scan[p].log) :
        Windows[scan[p].log[i].window] = scan[p].result.debug_info.window_used

\* C26: in the diagnostics of a fresh scan that succeeded, the counts are
\* those of the window named in window_used, and final_post_count <=
\* after_quality_filter <= raw_post_count.  (Violated: raw_post_count and
\* after_quality_filter are overwritten by every window answered without an
\* error, also by one whose posts are not kept.)
C26_CountsOfWindowUsed ==
    \A p \in DOMAIN scan :
        (Succeeded(p) /\ ~scan[p].result.cached)
        => LET debug == scan[p].result.debug_info
           IN  /\ debug.after_quality_filter = scan[p].log[UsedEntry(p)].filtered
               /\ debug.final_post_count <= debug.after_quality_filter
               /\ debug.after_quality_filter <= debug.raw_post_count

----------------------------------------------------------------------------
\* C27: under any interleaving of scans of one subject, a write of the
\* subject's entry of the result cache never installs a timestamp older than
\* the one it overwrites.  (Violated: the timestamp is the time at which the
\* writing scan started, so a scan that started earlier and ends later
\* overwrites a younger timestamp by an older one.)
C27_TimestampNeverDecreases ==
    [][ \A subject \in DOMAIN reddit_cache \cap DOMAIN reddit_cache' :
            reddit_cache'[subject].timestamp >= reddit_cache[subject].timestamp ]_vars

----------------------------------------------------------------------------
\* every post search of scan p answered so far held at most 100 posts
WithinUpstreamLimit(p) ==
    \A i \in 1..Len(scan[p].log) : scan[p].log[i].raw <= UPSTREAM_LIMIT
\* scan p was ended by an overload answer
Aborted(p) ==
    \E i \in 1..Len(scan[p].log) : scan[p].log[i].status \in OverloadStatuses
\* scan p has left the window loop: it samples comments, or it has ended
\* after at least one post search
PastWindows(p) == Sampling(p) \/ (ScanDone(p) /\ scan[p].requested # <<>>)

\* C28: in a scan whose post searches are all answered with at most 100
\* posts no window reaches the threshold of 150 filtered posts, and unless
\* an overload answer ends the scan, the searches for all three windows are
\* sent before the selection.
C28_AllWindowsUnderUpstreamLimit ==
    \A p \in DOMAIN scan :
        WithinUpstreamLimit(p)
        => /\ \A i \in 1..Len(scan[p].log) : ~ReachesThreshold(p, i)
           /\ (PastWindows(p) /\ ~Aborted(p)) => scan[p].requested = <<1, 2, 3>>

\* C28 witness: the first window was answered with 100 posts that all pass
\* the quality filter, and the scan went on to the other two windows before
\* sampling comments.
C28_Witness ==
    \E p \in DOMAIN scan :
        /\ Sampling(p)
        /\ WithinUpstreamLimit(p)
        /\ scan[p].log[1].raw = UPSTREAM_LIMIT
        /\ scan[p].log[1].filtered = UPSTREAM_LIMIT
        /\ scan[p].requested = <<1, 2, 3>>

----------------------------------------------------------------------------
\* no two places of the list s hold posts with one id: the list has as many
\* ids as places
DistinctIds(s) == Cardinality({s[k].id : k \in 1..Len(s)}) = Len(s)
\* the posts of the list s
Items(s) == {s[k] : k \in 1..Len(s)}

\* C29: when the ids of the posts given to the selector are all different,
\* the admitted posts are posts of the input and no post is admitted twice,
\* after every step of the first and of the second pass and in the list
\* returned.
C29_OutputDistinctItemsOfInput ==
    (SelRunning /\ DistinctIds(sel.posts))
    => /\ Items(sel.selected) \subseteq Items(sel.posts)
       /\ DistinctIds(sel.selected)

\* C29 witness: the selector has returned 100 posts of an input with
\* different ids, three of them deferred by the first pass and put in
\* places of older posts by the second.
C29_Witness ==
    /\ SelFinished
    /\ DistinctIds(sel.posts)
    /\ Len(sel.selected) = MAX_POSTS_FINAL
    /\ Len(sel.posts) > MAX_POSTS_FINAL
    /\ sel.j > 3
    /\ \A n \in 1..3 : sel.deferred_recent[n] \in Items(sel.selected)

----------------------------------------------------------------------------
\* C30: a status query for a subject that has an entry in the result cache
\* reports as post_count the number of posts stored in that entry.
\* (Violated: the reply holds len(cache_entry["data"]), and data is the dict
\* with the two keys "posts" and "comments", so post_count is 2 whatever
\* the entry holds.)
C30_PostCountIsStoredPosts ==
    [][ \A subreddit \in Subreddits :
            LET normalized == Lower(normalize_subreddit(subreddit))
            IN  (get_cache_status(subreddit) /\ normalized \in DOMAIN reddit_cache)
                => cache_status'.post_count
                       = Len(reddit_cache[normalized].data.posts) ]_vars

====
